---------------------------- MODULE Spec2Model ----------------------------
(***************************************************************************)
(* Escape-time kernel of src/wasm/cpp/mandelbrot.cpp: calculatePoint,      *)
(* calculateMandelbrotSet and freeResults, together with the malloc/free   *)
(* heap the batch function allocates its result buffer from.               *)
(*                                                                         *)
(* Doubles are modelled on the values where IEEE-754 arithmetic is exact   *)
(* (small integers) plus the three special classes +inf, -inf and NaN.     *)
(* unsigned int and size_t are 32 bits wide on wasm32; the model keeps the *)
(* modular arithmetic of the allocation size at a scaled-down width        *)
(* SizeBits.                                                               *)
(***************************************************************************)
EXTENDS Integers, Sequences, FiniteSets

(***************************************************************************)
(* Bounds of the model.                                                    *)
(***************************************************************************)
\* largest max_iterations a call is given
MaxIter == 3
\* largest number of coordinate pairs a contract-abiding caller passes
MaxLen == 2
\* number of result buffers malloc hands out in one behaviour
MaxBlocks == 2
\* words of linear memory behind the null word that malloc manages
HeapWords == 2
\* width in bits of size_t and unsigned int (32 on wasm32)
SizeBits == 5
\* largest max_iterations of the calls that evaluate single points only
MaxPointIter == 3

(***************************************************************************)
(* Program constants.                                                      *)
(***************************************************************************)
SizeofUInt == 4
SizeofDouble == 8
NULL == 0

(***************************************************************************)
(* double: finite values, the infinities and NaN.                          *)
(***************************************************************************)
Fin(n) == [cls |-> "fin", val |-> n]
PInf == [cls |-> "inf", val |-> 1]
NInf == [cls |-> "inf", val |-> -1]
NaN == [cls |-> "nan", val |-> 0]

Sign(n) == IF n > 0 THEN 1 ELSE IF n < 0 THEN -1 ELSE 0

\* a * b on doubles
DMul(a, b) ==
  IF a.cls = "nan" \/ b.cls = "nan" THEN NaN
  ELSE IF a.cls = "fin" /\ b.cls = "fin" THEN Fin(a.val * b.val)
  ELSE IF Sign(a.val) * Sign(b.val) = 0 THEN NaN
  ELSE [cls |-> "inf", val |-> Sign(a.val) * Sign(b.val)]

\* a + b on doubles
DAdd(a, b) ==
  IF a.cls = "nan" \/ b.cls = "nan" THEN NaN
  ELSE IF a.cls = "fin" /\ b.cls = "fin" THEN Fin(a.val + b.val)
  ELSE IF a.cls = "inf" /\ b.cls = "inf"
       THEN (IF a.val = b.val THEN a ELSE NaN)
  ELSE IF a.cls = "inf" THEN a ELSE b

\* -a on doubles
DNeg(a) == IF a.cls = "nan" THEN NaN ELSE [cls |-> a.cls, val |-> -a.val]

\* a - b on doubles
DSub(a, b) == DAdd(a, DNeg(b))

\* a > b on doubles: false whenever an operand is NaN
DGt(a, b) ==
  IF a.cls = "nan" \/ b.cls = "nan" THEN FALSE
  ELSE IF a.cls = "fin" /\ b.cls = "fin" THEN a.val > b.val
  ELSE IF a.cls = "inf" /\ b.cls = "inf" THEN a.val > b.val
  ELSE IF a.cls = "inf" THEN a.val > 0
  ELSE b.val < 0

(***************************************************************************)
(* calculatePoint.                                                         *)
(***************************************************************************)
\* the initial orbit value: z_real = 0.0, z_imag = 0.0
PointZ0 == <<Fin(0), Fin(0)>>

\* faulty variant: the comparison is not strict
PointEscapedGeq(z_real, z_imag, escape_radius_squared) ==
  LET z_magnitude_squared == DAdd(DMul(z_real, z_real), DMul(z_imag, z_imag))
  IN  DGt(z_magnitude_squared, escape_radius_squared)
        \/ z_magnitude_squared = escape_radius_squared
\* the escape test of one iteration: |z|^2 > escape_radius^2
PointEscaped(z_real, z_imag, escape_radius_squared) ==
  LET z_magnitude_squared == DAdd(DMul(z_real, z_real), DMul(z_imag, z_imag))
  IN  DGt(z_magnitude_squared, escape_radius_squared)

\* the update z = z^2 + c of one iteration, as <<z_real, z_imag>>
PointUpdate(z_real, z_imag, c_real, c_imag) ==
  LET z_real_temp == DAdd(DSub(DMul(z_real, z_real), DMul(z_imag, z_imag)), c_real)
  IN  <<z_real_temp, DAdd(DMul(DMul(Fin(2), z_real), z_imag), c_imag)>>

\* faulty variant: the loop bound is inclusive
RECURSIVE PointLoopInclusive(_, _, _, _, _, _, _)
PointLoopInclusive(c_real, c_imag, max_iterations, escape_radius_squared, iteration, z_real, z_imag) ==
  IF iteration <= max_iterations
  THEN IF PointEscaped(z_real, z_imag, escape_radius_squared)
       THEN [ret |-> iteration, body |-> iteration + 1]
       ELSE LET z == PointUpdate(z_real, z_imag, c_real, c_imag)
            IN  PointLoopInclusive(c_real, c_imag, max_iterations, escape_radius_squared,
                                   iteration + 1, z[1], z[2])
  ELSE [ret |-> max_iterations, body |-> iteration]
\* faulty variant: the escape test follows the update of its iteration
RECURSIVE PointLoopTestAfter(_, _, _, _, _, _, _)
PointLoopTestAfter(c_real, c_imag, max_iterations, escape_radius_squared, iteration, z_real, z_imag) ==
  IF iteration < max_iterations
  THEN LET z == PointUpdate(z_real, z_imag, c_real, c_imag)
       IN  IF PointEscaped(z[1], z[2], escape_radius_squared)
           THEN [ret |-> iteration, body |-> iteration + 1]
           ELSE PointLoopTestAfter(c_real, c_imag, max_iterations, escape_radius_squared,
                                   iteration + 1, z[1], z[2])
  ELSE [ret |-> max_iterations, body |-> iteration]
\* the for loop from `iteration` on: ret is the value returned, body the
\* number of times the loop body was entered
RECURSIVE PointLoop(_, _, _, _, _, _, _)
PointLoop(c_real, c_imag, max_iterations, escape_radius_squared, iteration, z_real, z_imag) ==
  IF iteration < max_iterations
  THEN IF PointEscaped(z_real, z_imag, escape_radius_squared)
       THEN [ret |-> iteration, body |-> iteration + 1]
       ELSE LET z == PointUpdate(z_real, z_imag, c_real, c_imag)
            IN  PointLoop(c_real, c_imag, max_iterations, escape_radius_squared,
                          iteration + 1, z[1], z[2])
  ELSE [ret |-> max_iterations, body |-> iteration]

\* the whole function: its return value and the loop-body count
PointRun(real, imag, max_iterations, escape_radius) ==
  LET c_real == real
      c_imag == imag
      escape_radius_squared == DMul(escape_radius, escape_radius)
  IN  PointLoop(c_real, c_imag, max_iterations, escape_radius_squared,
                0, PointZ0[1], PointZ0[2])

calculatePoint(real, imag, max_iterations, escape_radius) ==
  PointRun(real, imag, max_iterations, escape_radius).ret

(***************************************************************************)
(* The heap behind malloc and free.  Pointers are word addresses; word 0   *)
(* is the null address.  A block is one allocation: its pointer, the byte  *)
(* count asked for and whether it is still allocated.                      *)
(***************************************************************************)
\* a word never written since it was handed out or released
Indeterminate == <<>>
\* a word holding the unsigned int v
Word(v) == <<v>>

\* words of the address space
AddrWords == (2 ^ SizeBits) \div SizeofUInt
\* the words of linear memory: the null word and the heap
Memory == 0 .. HeapWords

\* words a request of `bytes` bytes occupies (a zero-byte request that is
\* served occupies a minimal chunk)
Footprint(bytes) ==
  IF bytes = 0 THEN 1 ELSE (bytes + SizeofUInt - 1) \div SizeofUInt

Extent(b) == b.ptr .. (b.ptr + Footprint(b.bytes) - 1)

Allocated(hp) == {k \in 1 .. Len(hp) : hp[k].state = "allocated"}
AllocatedPtrs(hp) == {hp[k].ptr : k \in Allocated(hp)}

\* the pointers malloc(bytes) may return: null (the request fails, or a
\* zero-byte request is answered with null), or the start of a run of free
\* heap words
MallocOutcomes(hp, bytes) ==
  {NULL} \cup
  {p \in 1 .. HeapWords :
     /\ Len(hp) < MaxBlocks
     /\ p + Footprint(bytes) - 1 <= HeapWords
     /\ \A k \in Allocated(hp) :
          Extent(hp[k]) \cap (p .. (p + Footprint(bytes) - 1)) = {}}

\* the heap and memory once malloc(bytes) has returned p # NULL
MallocHeap(hp, p, bytes) ==
  Append(hp, [ptr |-> p, bytes |-> bytes, state |-> "allocated"])
MallocMem(m, p, bytes) ==
  [a \in Memory |->
     IF a \in p .. (p + Footprint(bytes) - 1) THEN Indeterminate ELSE m[a]]

\* a released block: the allocator keeps no record of where it was
Released == [ptr |-> NULL, bytes |-> 0, state |-> "released"]

\* free(ptr): nothing for null, else the allocated block at ptr is released
Free(hp, m, ptr) ==
  IF ptr = NULL THEN [heap |-> hp, mem |-> m]
  ELSE [heap |-> [k \in 1 .. Len(hp) |->
                    IF hp[k].ptr = ptr /\ hp[k].state = "allocated"
                    THEN Released ELSE hp[k]],
        mem |-> [a \in Memory |->
                   IF \E k \in Allocated(hp) : hp[k].ptr = ptr /\ a \in Extent(hp[k])
                   THEN Indeterminate ELSE m[a]]]

(***************************************************************************)
(* calculateMandelbrotSet.                                                 *)
(***************************************************************************)
\* the byte count handed to malloc: length * sizeof(unsigned int) in size_t
MallocBytes(length) == (length * SizeofUInt) % (2 ^ SizeBits)

\* the address of results[i]
ElemAddr(results, i) == (results + i) % AddrWords

BatchZ0 == <<Fin(0), Fin(0)>>

BatchEscaped(z_real, z_imag, escape_radius_squared) ==
  LET z_magnitude_squared == DAdd(DMul(z_real, z_real), DMul(z_imag, z_imag))
  IN  DGt(z_magnitude_squared, escape_radius_squared)

BatchUpdate(z_real, z_imag, c_real, c_imag) ==
  LET z_real_temp == DAdd(DSub(DMul(z_real, z_real), DMul(z_imag, z_imag)), c_real)
  IN  <<z_real_temp, DAdd(DMul(DMul(Fin(2), z_real), z_imag), c_imag)>>

\* faulty variant: `iteration` is not advanced after an update
RECURSIVE InnerLoopNoCount(_, _, _, _, _, _, _, _)
InnerLoopNoCount(c_real, c_imag, max_iterations, escape_radius_squared, iter, z_real, z_imag, iteration) ==
  IF iter < max_iterations
  THEN IF BatchEscaped(z_real, z_imag, escape_radius_squared)
       THEN iter
       ELSE LET z == BatchUpdate(z_real, z_imag, c_real, c_imag)
            IN  InnerLoopNoCount(c_real, c_imag, max_iterations, escape_radius_squared,
                                 iter + 1, z[1], z[2], iteration)
  ELSE iteration
\* faulty variant: the escape test follows the update of its iteration
RECURSIVE InnerLoopTestAfter(_, _, _, _, _, _, _, _)
InnerLoopTestAfter(c_real, c_imag, max_iterations, escape_radius_squared, iter, z_real, z_imag, iteration) ==
  IF iter < max_iterations
  THEN LET z == BatchUpdate(z_real, z_imag, c_real, c_imag)
       IN  IF BatchEscaped(z[1], z[2], escape_radius_squared)
           THEN iter
           ELSE InnerLoopTestAfter(c_real, c_imag, max_iterations, escape_radius_squared,
                                   iter + 1, z[1], z[2], iter + 1)
  ELSE iteration
\* the inner for loop from `iter` on: the value of `iteration` when it ends
RECURSIVE InnerLoop(_, _, _, _, _, _, _, _)
InnerLoop(c_real, c_imag, max_iterations, escape_radius_squared, iter, z_real, z_imag, iteration) ==
  IF iter < max_iterations
  THEN IF BatchEscaped(z_real, z_imag, escape_radius_squared)
       THEN iter
       ELSE LET z == BatchUpdate(z_real, z_imag, c_real, c_imag)
            IN  InnerLoop(c_real, c_imag, max_iterations, escape_radius_squared,
                          iter + 1, z[1], z[2], iter + 1)
  ELSE iteration

\* one pass of the outer loop body for index i, from the running state st:
\* the memory, the addresses stored to, the coordinate reads made, and
\* whether a store fell outside linear memory (a trap)
OuterBody(real_coords, imag_coords, max_iterations, escape_radius_squared, results, i, st) ==
  LET c_real == real_coords[i + 1]
      c_imag == imag_coords[i + 1]
      iteration == InnerLoop(c_real, c_imag, max_iterations, escape_radius_squared,
                             0, BatchZ0[1], BatchZ0[2], 0)
      addr == ElemAddr(results, i)
  IN  IF addr \in Memory
      THEN [mem |-> [st.mem EXCEPT ![addr] = Word(iteration)],
            stores |-> st.stores \cup {addr}, reads |-> st.reads + 2, trap |-> FALSE]
      ELSE [mem |-> st.mem, stores |-> st.stores \cup {addr},
            reads |-> st.reads + 2, trap |-> TRUE]

\* faulty variant: the last element is left out
RECURSIVE OuterLoopShort(_, _, _, _, _, _, _, _)
OuterLoopShort(real_coords, imag_coords, length, max_iterations, escape_radius_squared, results, i, st) ==
  IF i + 1 < length /\ ~ st.trap
  THEN OuterLoopShort(real_coords, imag_coords, length, max_iterations,
                      escape_radius_squared, results, i + 1,
                      OuterBody(real_coords, imag_coords, max_iterations,
                                escape_radius_squared, results, i, st))
  ELSE st
\* the outer for loop from index i on
RECURSIVE OuterLoop(_, _, _, _, _, _, _, _)
OuterLoop(real_coords, imag_coords, length, max_iterations, escape_radius_squared, results, i, st) ==
  IF i < length /\ ~ st.trap
  THEN OuterLoop(real_coords, imag_coords, length, max_iterations,
                 escape_radius_squared, results, i + 1,
                 OuterBody(real_coords, imag_coords, max_iterations,
                           escape_radius_squared, results, i, st))
  ELSE st

\* faulty variant: the result of malloc is not tested
BatchBodyNoCheck(results, m, real_coords, imag_coords, length, max_iterations, escape_radius) ==
  LET escape_radius_squared == DMul(escape_radius, escape_radius)
      st == OuterLoop(real_coords, imag_coords, length, max_iterations,
                      escape_radius_squared, results, 0,
                      [mem |-> m, stores |-> {}, reads |-> 0, trap |-> FALSE])
  IN  [ret |-> results, mem |-> st.mem, stores |-> st.stores,
       reads |-> st.reads, trap |-> st.trap]
\* the function after malloc has returned `results`, on memory m: the value
\* returned (when no store trapped), the memory left, the stores and the
\* coordinate reads made
BatchBody(results, m, real_coords, imag_coords, length, max_iterations, escape_radius) ==
  IF results = NULL
  THEN [ret |-> NULL, mem |-> m, stores |-> {}, reads |-> 0, trap |-> FALSE]
  ELSE LET escape_radius_squared == DMul(escape_radius, escape_radius)
           st == OuterLoop(real_coords, imag_coords, length, max_iterations,
                           escape_radius_squared, results, 0,
                           [mem |-> m, stores |-> {}, reads |-> 0, trap |-> FALSE])
       IN  [ret |-> results, mem |-> st.mem, stores |-> st.stores,
            reads |-> st.reads, trap |-> st.trap]

(***************************************************************************)
(* freeResults.                                                            *)
(***************************************************************************)
\* faulty variant: a null argument releases the first allocated block
freeResultsNullFreesFirst(hp, m, ptr) ==
  IF ptr = NULL /\ Allocated(hp) # {}
  THEN Free(hp, m, hp[CHOOSE k \in Allocated(hp) : \A j \in Allocated(hp) : k <= j].ptr)
  ELSE Free(hp, m, ptr)
\* faulty variant: every allocated block is released with the one named
freeResultsAll(hp, m, ptr) ==
  IF ptr = NULL THEN [heap |-> hp, mem |-> m]
  ELSE [heap |-> [k \in 1 .. Len(hp) |-> Released],
        mem |-> Free(hp, m, ptr).mem]
freeResults(hp, m, ptr) == Free(hp, m, ptr)

(***************************************************************************)
(* The state: the heap, linear memory, the buffers the caller holds, and   *)
(* the activation of the call in progress (NoFrame between calls).         *)
(***************************************************************************)
VARIABLES heap, mem, owned, frame

vars == <<heap, mem, owned, frame>>

NoFrame == [fn |-> "none"]

\* inputs of calculatePoint
PointReals == {Fin(-2), Fin(3), NaN}
PointImags == {Fin(0), Fin(1)}
Radii == {Fin(-1), Fin(0), Fin(2)}
Budgets == 0 .. MaxIter

\* inputs of calculatePoint where only single points are evaluated
WideReals == {Fin(n) : n \in -3 .. 3} \cup {PInf, NInf, NaN}
WideImags == {Fin(n) : n \in -2 .. 2} \cup {PInf, NaN}
WideRadii == {Fin(n) : n \in -1 .. 3}
WideBudgets == 0 .. MaxPointIter

\* inputs of calculateMandelbrotSet
BatchPoints == {<<Fin(-2), Fin(0)>>, <<Fin(1), Fin(1)>>}
BatchRadii == {Fin(0), Fin(2)}
\* the coordinate arrays of n pairs, as a sequence of points
PointArrays(n) == [1 .. n -> BatchPoints]
\* a length whose two coordinate arrays fit in the address space
ValidLength(length) == 2 * length * SizeofDouble <= 2 ^ SizeBits

Init ==
  /\ heap = <<>>
  /\ mem = [a \in Memory |-> Indeterminate]
  /\ owned = {}
  /\ frame = NoFrame

\* the caller evaluates one point
CallCalculatePoint(real, imag, max_iterations, escape_radius) ==
  /\ frame = NoFrame
  /\ frame' = [fn |-> "calculatePoint", real |-> real, imag |-> imag,
               max_iterations |-> max_iterations, escape_radius |-> escape_radius,
               ret |-> calculatePoint(real, imag, max_iterations, escape_radius),
               body |-> PointRun(real, imag, max_iterations, escape_radius).body]
  /\ UNCHANGED <<heap, mem, owned>>

\* the batch function run on its arguments, malloc returning `results`
RunBatch(real_coords, imag_coords, length, max_iterations, escape_radius, results) ==
  LET bytes == MallocBytes(length)
      m0 == IF results = NULL THEN mem ELSE MallocMem(mem, results, bytes)
      out == BatchBody(results, m0, real_coords, imag_coords, length,
                       max_iterations, escape_radius)
  IN  /\ heap' = IF results = NULL THEN heap ELSE MallocHeap(heap, results, bytes)
      /\ mem' = out.mem
      /\ frame' = [fn |-> "calculateMandelbrotSet",
                   real_coords |-> real_coords, imag_coords |-> imag_coords,
                   length |-> length, max_iterations |-> max_iterations,
                   escape_radius |-> escape_radius, bytes |-> bytes,
                   results |-> results, ret |-> out.ret, stores |-> out.stores,
                   reads |-> out.reads, trap |-> out.trap]
      /\ UNCHANGED owned

\* the caller evaluates a batch, its arrays holding `length` pairs
CallCalculateMandelbrotSet(pts, max_iterations, escape_radius) ==
  /\ frame = NoFrame
  /\ ValidLength(Len(pts))
  /\ \E results \in MallocOutcomes(heap, MallocBytes(Len(pts))) :
       RunBatch([i \in 1 .. Len(pts) |-> pts[i][1]],
                [i \in 1 .. Len(pts) |-> pts[i][2]],
                Len(pts), max_iterations, escape_radius, results)

\* the caller releases a buffer it holds, or passes null
CallFreeResults(ptr) ==
  /\ frame = NoFrame
  /\ ptr \in owned \cup {NULL}
  /\ heap' = freeResults(heap, mem, ptr).heap
  /\ mem' = freeResults(heap, mem, ptr).mem
  /\ owned' = owned \ {ptr}
  /\ frame' = [fn |-> "freeResults", ptr |-> ptr]

\* the call in progress returns to the caller, who takes the buffer
Return ==
  /\ frame # NoFrame
  /\ frame.fn = "calculateMandelbrotSet" => ~ frame.trap
  /\ owned' = IF frame.fn = "calculateMandelbrotSet" /\ frame.ret # NULL
              THEN owned \cup {frame.ret} ELSE owned
  /\ frame' = NoFrame
  /\ UNCHANGED <<heap, mem>>

Next ==
  \/ \E real \in PointReals, imag \in PointImags, max_iterations \in Budgets,
        escape_radius \in Radii :
       CallCalculatePoint(real, imag, max_iterations, escape_radius)
  \/ \E n \in 0 .. MaxLen, max_iterations \in Budgets, escape_radius \in BatchRadii :
       \E pts \in PointArrays(n) :
         CallCalculateMandelbrotSet(pts, max_iterations, escape_radius)
  \/ \E ptr \in Memory : CallFreeResults(ptr)
  \/ Return

Spec == Init /\ [][Next]_vars

(***************************************************************************)
(* Single-point evaluation alone, over a wider range of inputs.            *)
(***************************************************************************)
NextPoint ==
  \/ \E real \in WideReals, imag \in WideImags, max_iterations \in WideBudgets,
        escape_radius \in WideRadii :
       CallCalculatePoint(real, imag, max_iterations, escape_radius)
  \/ Return

SpecPoint == Init /\ [][NextPoint]_vars

(***************************************************************************)
(* A caller that passes any length an unsigned int can hold; the reads of  *)
(* the coordinate arrays all yield the point pt.                           *)
(***************************************************************************)
CallCalculateMandelbrotSetAnyLength(pt, length, max_iterations, escape_radius) ==
  /\ frame = NoFrame
  /\ \E results \in MallocOutcomes(heap, MallocBytes(length)) :
       RunBatch([i \in 1 .. length |-> pt[1]], [i \in 1 .. length |-> pt[2]],
                length, max_iterations, escape_radius, results)

NextAnyLength ==
  \/ Next
  \/ \E pt \in BatchPoints, length \in 0 .. (2 ^ SizeBits - 1),
        max_iterations \in Budgets, escape_radius \in BatchRadii :
       CallCalculateMandelbrotSetAnyLength(pt, length, max_iterations, escape_radius)

SpecAnyLength == Init /\ [][NextAnyLength]_vars

(***************************************************************************)
(* Properties.                                                             *)
(***************************************************************************)
IsPoint == frame.fn = "calculatePoint"
IsBatch == frame.fn = "calculateMandelbrotSet"
IsFree == frame.fn = "freeResults"

\* the batch call in progress has returned a buffer
BatchReturned == IsBatch /\ ~ frame.trap /\ frame.ret # NULL

\* the orbit of c by the recurrence z_0 = 0, z_{n+1} = z_n^2 + c, stated
\* apart from the loops
RECURSIVE Orbit(_, _, _)
Orbit(c_real, c_imag, n) ==
  IF n = 0 THEN <<Fin(0), Fin(0)>>
  ELSE LET z == Orbit(c_real, c_imag, n - 1)
       IN  <<DAdd(DSub(DMul(z[1], z[1]), DMul(z[2], z[2])), c_real),
             DAdd(DMul(Fin(2), DMul(z[1], z[2])), c_imag)>>

\* |z|^2 of an orbit value
MagnitudeSquared(z) == DAdd(DMul(z[1], z[1]), DMul(z[2], z[2]))

\* the indexes below max_iterations whose orbit value lies strictly outside
\* the escape radius
EscapingIndexes(c_real, c_imag, max_iterations, escape_radius) ==
  {k \in 0 .. (max_iterations - 1) :
     DGt(MagnitudeSquared(Orbit(c_real, c_imag, k)),
         DMul(escape_radius, escape_radius))}

\* C1: every element of a buffer calculateMandelbrotSet returns equals
\* calculatePoint of the coordinate pair at its index, with the same
\* max_iterations and escape_radius.
C1_BatchAgreesWithPoint ==
  BatchReturned =>
    \A i \in 0 .. (frame.length - 1) :
      mem[frame.ret + i] =
        Word(calculatePoint(frame.real_coords[i + 1], frame.imag_coords[i + 1],
                            frame.max_iterations, frame.escape_radius))

\* a returned buffer of two elements with radius 2 and a budget of 3: the
\* first, c = 1 + i, ended by escape at index 2, the second, c = -2, by
\* exhausting the budget
C1_Witness ==
  /\ BatchReturned
  /\ frame.length = 2
  /\ frame.max_iterations = 3
  /\ frame.escape_radius = Fin(2)
  /\ frame.real_coords[1] = Fin(1) /\ frame.imag_coords[1] = Fin(1)
  /\ frame.real_coords[2] = Fin(-2)
  /\ mem[frame.ret] = Word(2)
  /\ mem[frame.ret + 1] = Word(3)

\* C2: calculatePoint returns the least index k below max_iterations whose
\* orbit value z_k has |z_k|^2 > escape_radius^2, and max_iterations when
\* there is none; the result lies in 0 .. max_iterations.
C2_LeastEscapingIndex ==
  IsPoint =>
    LET E == EscapingIndexes(frame.real, frame.imag, frame.max_iterations,
                             frame.escape_radius)
    IN  /\ frame.ret \in 0 .. frame.max_iterations
        /\ E = {} => frame.ret = frame.max_iterations
        /\ E # {} => frame.ret \in E /\ \A k \in E : frame.ret <= k

\* c = -2 with radius 2: |z_k|^2 = 4 = escape_radius^2 from k = 1 on and
\* never more, and the budget is returned
C2_Witness ==
  /\ IsPoint
  /\ frame.real = Fin(-2) /\ frame.imag = Fin(0) /\ frame.escape_radius = Fin(2)
  /\ frame.max_iterations = MaxPointIter
  /\ MagnitudeSquared(Orbit(frame.real, frame.imag, 1)) = Fin(4)
  /\ frame.ret = frame.max_iterations

\* C3: calculateMandelbrotSet called with length 0 never returns null.
C3_ZeroLengthNeverNull ==
  (IsBatch /\ frame.length = 0) => frame.ret # NULL

\* C4: the buffer calculateMandelbrotSet allocates holds exactly `length`
\* elements (the byte count does not wrap), and every store results[i]
\* lands inside it.
C4_BufferHoldsLength ==
  (IsBatch /\ frame.results # NULL) =>
    /\ frame.bytes = frame.length * SizeofUInt
    /\ frame.stores \subseteq
         frame.results .. (frame.results + frame.bytes \div SizeofUInt - 1)

\* C5: a failed allocation returns null with no store, no coordinate read
\* and no buffer left allocated; a successful one returns the buffer with
\* all `length` elements written, and the caller holds no buffer before
\* that, so every buffer the caller holds is fully populated.
C5_FailureIsCleanSuccessIsComplete ==
  /\ IsBatch /\ frame.results = NULL =>
       /\ frame.ret = NULL
       /\ frame.stores = {}
       /\ frame.reads = 0
       /\ AllocatedPtrs(heap) = owned
  /\ IsBatch /\ frame.results # NULL =>
       /\ frame.ret = frame.results
       /\ frame.ret \notin owned
       /\ frame.stores = {frame.ret + i : i \in 0 .. (frame.length - 1)}
       /\ \A i \in 0 .. (frame.length - 1) : mem[frame.ret + i] # Indeterminate
  /\ \A k \in Allocated(heap) :
       heap[k].ptr \in owned =>
         \A i \in 0 .. (heap[k].bytes \div SizeofUInt - 1) :
           mem[heap[k].ptr + i] # Indeterminate

\* a call for two elements whose allocation failed while the caller holds
\* an earlier buffer
C5_Witness ==
  /\ IsBatch
  /\ frame.results = NULL
  /\ frame.length = 2
  /\ owned # {}

\* C6: with max_iterations = 0 calculatePoint returns 0 without entering
\* the loop body, and every element calculateMandelbrotSet writes is 0.
C6_ZeroBudget ==
  /\ IsPoint /\ frame.max_iterations = 0 => frame.ret = 0 /\ frame.body = 0
  /\ BatchReturned /\ frame.max_iterations = 0 =>
       \A i \in 0 .. (frame.length - 1) : mem[frame.ret + i] = Word(0)

\* calculatePoint(3, 0, 0, 0) has returned: with any budget above 0 the
\* point would have escaped at index 1
C6_Witness ==
  /\ IsPoint
  /\ frame.max_iterations = 0
  /\ frame.real = Fin(3) /\ frame.escape_radius = Fin(0)
  /\ frame.ret = 0

\* C7: freeResults(null) changes no block of the heap, no word of memory
\* and no buffer the caller holds.
C7_FreeNullIsNoOp ==
  [][(frame = NoFrame /\ frame'.fn = "freeResults" /\ frame'.ptr = NULL) =>
       (heap' = heap /\ mem' = mem /\ owned' = owned)]_vars

\* freeResults(null) has run on a heap with one allocated and one released
\* block
C7_Witness ==
  /\ IsFree
  /\ frame.ptr = NULL
  /\ \E k \in 1 .. Len(heap) : heap[k].state = "allocated"
  /\ \E k \in 1 .. Len(heap) : heap[k].state = "released"

\* C8: calculatePoint(3.0, 0.0, N, 2.0) = 1 for every N >= 1.
C8_ThreeEscapesAtOne ==
  (/\ IsPoint
   /\ frame.real = Fin(3) /\ frame.imag = Fin(0) /\ frame.escape_radius = Fin(2)
   /\ frame.max_iterations >= 1) => frame.ret = 1

\* the call with N >= 2: the escape is detected at iteration index 1, in
\* the second pass through the loop body
C8_Witness ==
  /\ IsPoint
  /\ frame.real = Fin(3) /\ frame.imag = Fin(0) /\ frame.escape_radius = Fin(2)
  /\ frame.max_iterations >= 2
  /\ frame.ret = 1
  /\ frame.body = 2

\* the lifecycle state of block k in heap hp
BlockState(hp, k) == IF k > Len(hp) THEN "unallocated" ELSE hp[k].state

\* C9: each buffer goes unallocated -> allocated -> released: allocated
\* only by a calculateMandelbrotSet call that returns it, released only by
\* freeResults on it, never allocated again; buffers allocated at the same
\* time are distinct and do not overlap.
C9_BufferLifecycle ==
  /\ [](\A j, k \in Allocated(heap) :
          j # k => /\ heap[j].ptr # heap[k].ptr
                   /\ Extent(heap[j]) \cap Extent(heap[k]) = {})
  /\ [][\A k \in 1 .. MaxBlocks :
          /\ BlockState(heap, k) = "unallocated"
               /\ BlockState(heap', k) # "unallocated" =>
               /\ BlockState(heap', k) = "allocated"
               /\ frame'.fn = "calculateMandelbrotSet"
               /\ frame'.ret # NULL
               /\ frame'.ret = heap'[k].ptr
          /\ BlockState(heap, k) = "allocated"
               /\ BlockState(heap', k) # "allocated" =>
               /\ BlockState(heap', k) = "released"
               /\ frame'.fn = "freeResults"
               /\ frame'.ptr = heap[k].ptr
          /\ BlockState(heap, k) = "released" =>
               BlockState(heap', k) = "released"]_vars

\* freeResults has just released one of two buffers that were allocated at
\* the same time; the other is still allocated
C9_Witness ==
  /\ IsFree
  /\ frame.ptr # NULL
  /\ \E j, k \in 1 .. Len(heap) :
       heap[j].state = "released" /\ heap[k].state = "allocated"

\* C10: calculatePoint returns 0 exactly when max_iterations = 0, whatever
\* the coordinate and the escape radius; so does every element
\* calculateMandelbrotSet writes.
C10_ZeroOnlyForZeroBudget ==
  /\ IsPoint => (frame.ret = 0 <=> frame.max_iterations = 0)
  /\ BatchReturned =>
       \A i \in 0 .. (frame.length - 1) :
         mem[frame.ret + i] = Word(0) <=> frame.max_iterations = 0

\* a batch with escape radius 0 and a positive budget: |z_0|^2 = 0 is not
\* above 0, and the element written is 1
C10_Witness ==
  /\ BatchReturned
  /\ frame.escape_radius = Fin(0)
  /\ frame.max_iterations >= 1
  /\ frame.length >= 1
  /\ mem[frame.ret] = Word(1)

=============================================================================
